---------------------------- MODULE Spec2Model ----------------------------
(***************************************************************************)
(* A model of wfmk.py, the warframe.market command-line client: the TTL    *)
(* parser, the disk cache in front of the throttled fetcher, the item name *)
(* resolver, and the order filter and summary.                             *)
(*                                                                         *)
(* Python strings are sequences of one-character strings, so that          *)
(* formatting, globbing and regular-expression substitution are computed   *)
(* character by character.  Times are integers counting microseconds, the  *)
(* resolution of datetime and timedelta.                                   *)
(***************************************************************************)
EXTENDS Integers, Sequences, FiniteSets, TLC

(***************************************************************************)
(* Characters, in code point order.                                        *)
(***************************************************************************)
Alphabet ==
    <<"\n", " ", "!", "*", "-", "/", "0", "1", "2", "3", "4", "5", "6", "7", "8", "9", "?",
      "A", "B", "C", "D", "E", "F", "G", "H", "I", "J", "K", "L", "M",
      "N", "O", "P", "Q", "R", "S", "T", "U", "V", "W", "X", "Y", "Z",
      "[", "]", "_",
      "a", "b", "c", "d", "e", "f", "g", "h", "i", "j", "k", "l", "m",
      "n", "o", "p", "q", "r", "s", "t", "u", "v", "w", "x", "y", "z">>

Chars == {Alphabet[i] : i \in 1..Len(Alphabet)}

Ord == [c \in Chars |-> CHOOSE i \in 1..Len(Alphabet) : Alphabet[i] = c]

Digits == {"0", "1", "2", "3", "4", "5", "6", "7", "8", "9"}

UpperCase == {Alphabet[i] : i \in Ord["A"]..Ord["Z"]}

LowerCase == {Alphabet[i] : i \in Ord["a"]..Ord["z"]}

\* str.lower() of one character
Lower(c) == IF c \in UpperCase THEN Alphabet[Ord[c] + (Ord["a"] - Ord["A"])] ELSE c

\* \w of the re module
IsWord(c) == c \in UpperCase \cup LowerCase \cup Digits \cup {"_"}

\* Python's None
None == <<>>

\* a value that is not None
Some(x) == <<x>>

\* s[i:] for a 1-based i
Drop(s, i) == SubSeq(s, i, Len(s))

RECURSIVE StrLess(_, _)
\* a < b on Python strings: lexicographic by code point
StrLess(a, b) ==
    IF b = <<>> THEN FALSE
    ELSE IF a = <<>> THEN TRUE
    ELSE IF Head(a) = Head(b) THEN StrLess(Tail(a), Tail(b))
    ELSE Ord[Head(a)] < Ord[Head(b)]

(***************************************************************************)
(* StrToTimeDelta: the TTL parser.  A timedelta is modelled by its length  *)
(* in seconds.                                                             *)
(***************************************************************************)
RECURSIVE IntOf(_)
\* int(v) for a string of decimal digits
IntOf(v) ==
    IF v = <<>> THEN 0
    ELSE 10 * IntOf(SubSeq(v, 1, Len(v) - 1)) + (Ord[v[Len(v)]] - Ord["0"])

IsDigits(v) == v # <<>> /\ \A i \in 1..Len(v) : v[i] \in Digits

\* seconds in one unit of the regular expression's named groups
UnitSeconds(u) ==
    CASE u = "d" -> 86400
      [] u = "h" -> 3600
      [] u = "m" -> 60
      [] u = "s" -> 1

\* The regular expression of StrToTimeDelta, anchored by ^ and $: one or more
\* digits and then d, h, m, s or nothing.  $ also matches before a final newline.
TimeMatch(time_str) ==
    LET body == IF time_str # <<>> /\ time_str[Len(time_str)] = "\n"
                THEN SubSeq(time_str, 1, Len(time_str) - 1) ELSE time_str
        last == body[Len(body)]
    IN  IF body = <<>> THEN None
        ELSE IF last \in {"d", "h", "m", "s"} /\ IsDigits(SubSeq(body, 1, Len(body) - 1))
             THEN Some([unit |-> last, v |-> SubSeq(body, 1, Len(body) - 1)])
        ELSE IF IsDigits(body) THEN Some([unit |-> "s", v |-> body])
        ELSE None

StrToTimeDelta(time_str) ==
    IF time_str = <<>> THEN None
    ELSE LET match == TimeMatch(time_str)
         IN  IF match = None THEN None
             ELSE Some(IntOf(match[1].v) * UnitSeconds(match[1].unit))

(***************************************************************************)
(* The cache file of a resource.                                           *)
(***************************************************************************)
\* "{}/{}-{}-{}.json".format(cache_dir, cache_file, args.platform, args.language)
CachePathFormat(dir, cache_file, platform, language) ==
    dir \o <<"/">> \o cache_file \o <<"-">> \o platform \o <<"-">> \o language \o <<".", "j", "s", "o", "n">>

\* cache_file of GetAllItems
AllItemsFile == <<"a", "l", "l", "_", "i", "t", "e", "m", "s">>

\* "{}-orders".format(item['url_name']) of GetItemOrders
OrdersFile(url_name) == url_name \o <<"-", "o", "r", "d", "e", "r", "s">>

(***************************************************************************)
(* fnmatch.translate(pattern) compiled with re.IGNORECASE and applied with *)
(* match: the whole name must match.                                       *)
(***************************************************************************)
RECURSIVE ClassEnd(_, _)
\* the index of the ] closing a bracket expression, scanning from j; 0 if none
ClassEnd(pat, j) ==
    IF j > Len(pat) THEN 0
    ELSE IF pat[j] = "]" THEN j
    ELSE ClassEnd(pat, j + 1)

\* The ] that closes the [ at pat[1]: a ! and then a ] right after the [ are
\* part of the bracket expression.
BracketClose(pat) ==
    LET j1 == IF Len(pat) >= 2 /\ pat[2] = "!" THEN 3 ELSE 2
        j2 == IF j1 <= Len(pat) /\ pat[j1] = "]" THEN j1 + 1 ELSE j1
    IN  ClassEnd(pat, j2)

RECURSIVE InClass(_, _)
\* c is a member of the bracket expression body: single characters and ranges
InClass(stuff, c) ==
    IF stuff = <<>> THEN FALSE
    ELSE IF Len(stuff) >= 3 /\ stuff[2] = "-"
         THEN (Ord[stuff[1]] <= Ord[c] /\ Ord[c] <= Ord[stuff[3]]) \/ InClass(Drop(stuff, 4), c)
    ELSE stuff[1] = c \/ InClass(Tail(stuff), c)

\* a bracket expression under IGNORECASE: either case of c may be the member
ClassMatch(stuff, c) ==
    LET neg    == stuff[1] = "!"
        body   == IF neg THEN Tail(stuff) ELSE stuff
        member == \E x \in Chars : Lower(x) = Lower(c) /\ InClass(body, x)
    IN  IF neg THEN ~member ELSE member

RECURSIVE GlobMatch(_, _)
GlobMatch(pat, name) ==
    IF pat = <<>> THEN name = <<>>
    ELSE LET c == Head(pat) IN
         IF c = "*"
         THEN GlobMatch(Tail(pat), name) \/ (name # <<>> /\ GlobMatch(pat, Tail(name)))
         ELSE IF c = "?"
         THEN name # <<>> /\ GlobMatch(Tail(pat), Tail(name))
         ELSE IF c = "[" /\ BracketClose(pat) # 0
         THEN LET j == BracketClose(pat) IN
              /\ name # <<>>
              /\ ClassMatch(SubSeq(pat, 2, j - 1), Head(name))
              /\ GlobMatch(Drop(pat, j + 1), Tail(name))
         ELSE /\ name # <<>>
              /\ Lower(Head(name)) = Lower(c)
              /\ GlobMatch(Tail(pat), Tail(name))

RECURSIVE MatchLoop(_, _, _)
\* the for loop of _FindMatchingItems over all_items[i:], appending to matches
MatchLoop(item_name, all_items, matches) ==
    IF all_items = <<>> THEN matches
    ELSE MatchLoop(item_name, Tail(all_items),
                   IF GlobMatch(item_name, Head(all_items).item_name)
                   THEN Append(matches, Head(all_items).item_name) ELSE matches)

FindMatchingItemsRaw(item_name, all_items) == MatchLoop(item_name, all_items, <<>>)

(***************************************************************************)
(* name_replacements.  Each rule is \b pattern \b compiled with IGNORECASE *)
(* and its expansion; alts lists the strings the pattern matches, in the   *)
(* order the greedy ? quantifiers try them.                                *)
(***************************************************************************)
_nr_init(alts, repl) == [alts |-> alts, repl |-> repl]

name_replacements ==
    << _nr_init(<< <<"b", "r", "l">> >>, <<"B", "a", "r", "r", "e", "l">>),
       _nr_init(<< <<"b", "l", "d">> >>, <<"B", "l", "a", "d", "e">>),
       _nr_init(<< <<"b", "p">> >>, <<"B", "l", "u", "e", "p", "r", "i", "n", "t">>),
       _nr_init(<< <<"c", "a", "r", "a">>, <<"c", "a", "r">> >>, <<"C", "a", "r", "a", "p", "a", "c", "e">>),
       _nr_init(<< <<"c", "e", "r", "e">>, <<"c", "e", "r">> >>, <<"C", "e", "r", "e", "b", "r", "u", "m">>),
       _nr_init(<< <<"c", "h", "a", "s", "s">>, <<"c", "h", "a", "s">>, <<"c", "h", "a">> >>, <<"C", "h", "a", "s", "s", "i", "s">>),
       _nr_init(<< <<"g", "t", "l", "t">>, <<"g", "t", "l">>, <<"g", "t", "t">>, <<"g", "t">> >>, <<"G", "a", "u", "n", "t", "l", "e", "t">>),
       _nr_init(<< <<"h", "n", "d", "l">>, <<"h", "d", "l">> >>, <<"H", "a", "n", "d", "l", "e">>),
       _nr_init(<< <<"n", "e", "u", "r">>, <<"n", "e", "u">> >>, <<"N", "e", "u", "r", "o", "p", "t", "i", "c", "s">>),
       _nr_init(<< <<"p">> >>, <<"P", "r", "i", "m", "e">>),
       _nr_init(<< <<"r", "e", "c">> >>, <<"R", "e", "c", "e", "i", "v", "e", "r">>),
       _nr_init(<< <<"s", "c", "u", "l">>, <<"s", "c", "u">> >>, <<"S", "c", "u", "l", "p", "t", "u", "r", "e">>),
       _nr_init(<< <<"s", "t", "k">> >>, <<"S", "t", "o", "c", "k">>),
       _nr_init(<< <<"s", "t", "r">> >>, <<"S", "t", "r", "i", "n", "g">>),
       _nr_init(<< <<"s", "y", "s">> >>, <<"S", "y", "s", "t", "e", "m", "s">>) >>

\* \b at position i of s (between s[i-1] and s[i]): exactly one side is a word character
WordBoundary(s, i) ==
    LET before == i > 1 /\ IsWord(s[i - 1])
        after  == i <= Len(s) /\ IsWord(s[i])
    IN  before # after

\* the alternative w matches s at i, ignoring case, between two word boundaries
AltMatchesAt(w, s, i) ==
    /\ i + Len(w) - 1 <= Len(s)
    /\ \A k \in 1..Len(w) : Lower(s[i + k - 1]) = w[k]
    /\ WordBoundary(s, i)
    /\ WordBoundary(s, i + Len(w))

\* the length the rule matches at i: that of its first alternative that matches; 0 if none
RuleMatchLen(rule, s, i) ==
    LET hits == {k \in 1..Len(rule.alts) : AltMatchesAt(rule.alts[k], s, i)}
    IN  IF hits = {} THEN 0
        ELSE Len(rule.alts[CHOOSE k \in hits : \A h \in hits : k <= h])

RECURSIVE SubFrom(_, _, _)
\* r[0].sub(r[1], s) from position i on: leftmost matches, not overlapping
SubFrom(rule, s, i) ==
    IF i > Len(s) THEN <<>>
    ELSE LET n == RuleMatchLen(rule, s, i) IN
         IF n > 0 THEN rule.repl \o SubFrom(rule, s, i + n)
         ELSE <<s[i]>> \o SubFrom(rule, s, i + 1)

Sub(rule, s) == SubFrom(rule, s, 1)

RECURSIVE ReplaceLoop(_, _)
\* for r in name_replacements[k:]: item_name = r[0].sub(r[1], item_name)
ReplaceLoop(item_name, k) ==
    IF k > Len(name_replacements) THEN item_name
    ELSE ReplaceLoop(Sub(name_replacements[k], item_name), k + 1)

ExpandAbbreviations(item_name) == ReplaceLoop(item_name, 1)

FindMatchingItemsAlwaysExpands(item_name, all_items) ==
    FindMatchingItemsRaw(ExpandAbbreviations(item_name), all_items)

FindMatchingItems(item_name, all_items) ==
    LET matches == FindMatchingItemsRaw(item_name, all_items)
    IN  IF matches = <<>>
        THEN FindMatchingItemsRaw(ExpandAbbreviations(item_name), all_items)
        ELSE matches

RECURSIVE InsertByName(_, _)
\* x goes after every item whose name is not greater: the sort is stable
InsertByName(sorted, x) ==
    IF sorted = <<>> THEN <<x>>
    ELSE IF StrLess(x.item_name, Head(sorted).item_name) THEN <<x>> \o sorted
    ELSE <<Head(sorted)>> \o InsertByName(Tail(sorted), x)

RECURSIVE SortByName(_)
\* items.sort(key=lambda x: x['item_name'])
SortByName(items) ==
    IF items = <<>> THEN <<>>
    ELSE InsertByName(SortByName(SubSeq(items, 1, Len(items) - 1)), items[Len(items)])

(***************************************************************************)
(* The program's state.                                                    *)
(***************************************************************************)
VARIABLES
    pc,               \* where the process is in the main code; "exited" after quit
    run,              \* how many processes have been started
    args,             \* the parsed command line
    ttl_items,        \* None or Some(seconds)
    ttl_orders,       \* None or Some(seconds)
    now,              \* the clock, in microseconds
    cache_dir_state,  \* the cache directory: "missing", "dir" or "notdir"
    cache_other,      \* the cache directory holds an entry that is not a file
    files,            \* the cache files: path -> [mtime, content]
    last_request,     \* None or Some(time)
    call,             \* the parameters of the GetData call in progress
    data,             \* the value GetData returns
    all_items,        \* the sorted catalog
    item_idx,         \* the position of the loop over args.items
    to_lookup,        \* the item names to look up
    lookup_idx,       \* the position of the loop over to_lookup
    retval,
    exit_status,      \* None while the process runs, Some(status) after
    served,           \* how many responses the server has sent: the next payload's serial
    exit_at,          \* history: the statement that ended the process
    trace,            \* history: what the GetData call in progress has done
    prev_request,     \* history: last_request before the latest ThrottleRequests
    n_throttle,       \* history: ThrottleRequests calls of this process
    n_http,           \* history: session.get calls of this process
    order_calls,      \* history: GetItemOrders calls of this process
    failed,           \* history: a fetch of this process has failed
    fs_ops            \* history: what this process did to the cache directory and files

VARIABLES
    item_name,        \* name resolution: the pattern
    catalog,          \* name resolution: the catalog
    matches,          \* name resolution: None or Some(the result of FindMatchingItems)
    flags,            \* order display: buyers, reverse, summary, all, platform, language
    orders,           \* order display: the fetched order list
    shown,            \* order display: None or Some(what the loop body showed)
    key1,             \* cache identity: a (cache_file, platform, language)
    key2,             \* cache identity: another one
    paths             \* cache identity: None or Some(<<path of key1, path of key2>>)

procVars == <<pc, run, args, ttl_items, ttl_orders, last_request, call, data, all_items,
              item_idx, to_lookup, lookup_idx, retval, exit_status>>
envVars == <<now, cache_dir_state, cache_other, files, served>>
histVars == <<exit_at, trace, prev_request, n_throttle, n_http, order_calls, failed, fs_ops>>
mainVars == <<procVars, envVars, histVars>>
resolveVars == <<item_name, catalog, matches>>
orderVars == <<flags, orders, shown>>
pathVars == <<key1, key2, paths>>
otherVars == <<resolveVars, orderVars, pathVars>>
vars == <<mainVars, otherVars>>

(***************************************************************************)
(* Constants of the program.                                               *)
(***************************************************************************)
\* microseconds in timedelta(seconds=1)
Second == 1000000

\* the 0.0005 seconds below which ThrottleRequests does not sleep, in microseconds
Tolerance == 500

\* the 60 of request_delay = timedelta(seconds=(60 / args.rate_limit)), in microseconds
Minute == 60000000

\* round(n / d) to the nearest integer, halves to the even one, as timedelta and round() do
RoundHalfEven(n, d) ==
    LET q == n \div d
        r == n % d
    IN  IF 2 * r < d THEN q
        ELSE IF 2 * r > d THEN q + 1
        ELSE IF q % 2 = 0 THEN q ELSE q + 1

request_delay == RoundHalfEven(Minute, args.rate_limit)

\* args.cache_dir
cache_dir == <<"c">>

\* a timedelta in microseconds
Micros(td) == td[1] * Second

(***************************************************************************)
(* The marketplace server.                                                 *)
(***************************************************************************)
\* the catalog the API serves, in the API's order
ServerItems ==
    << [item_name |-> <<"A", "c">>, url_name |-> <<"a", "c">>],
       [item_name |-> <<"B", " ", "P", "r", "i", "m", "e">>, url_name |-> <<"b", "_", "p", "r", "i", "m", "e">>],
       [item_name |-> <<"A", "b">>, url_name |-> <<"a", "b">>] >>

\* the body of a good response: every response is a new payload
Payload(url, serial) ==
    IF url = <<"i", "t", "e", "m", "s">>
    THEN [serial |-> serial, payload |-> [items |-> ServerItems]]
    ELSE [serial |-> serial, payload |-> [orders |-> url]]

\* the body of a response that reports an application error
ErrorBody(serial) == [serial |-> serial, error |-> "app.error"]

\* what session.get, raise_for_status and r.json() can do
Exceptions == {"Timeout", "ConnectionError", "TooManyRedirects", "HTTPError", "RequestException"}

Responses(url, serial) ==
    {[exc |-> e, json |-> FALSE, body |-> None] : e \in Exceptions}
    \cup {[exc |-> "none", json |-> FALSE, body |-> None],
          [exc |-> "none", json |-> TRUE, body |-> Some(ErrorBody(serial))],
          [exc |-> "none", json |-> TRUE, body |-> Some(Payload(url, serial))]}

\* json.dump(data, f) and json.load(f)
JsonDump(d) == <<"json", d>>
JsonLoad(text) == text[2]

(***************************************************************************)
(* DownloadJSON and GetData.                                               *)
(***************************************************************************)
\* 'error' in data
HasError(d) == "error" \in DOMAIN d

DownloadSkipsErrorField(resp) == resp.exc # "none" \/ ~resp.json

\* DownloadJSON quits: an exception of requests, a body that is not JSON, 'error' in data
DownloadFails(resp) == resp.exc # "none" \/ ~resp.json \/ HasError(resp.body[1])

IsFreshOffByOne(mtime, cache_ttl) == mtime >= now - Micros(cache_ttl)

\* use_cache of GetData, given that the cache file exists
IsFresh(mtime, cache_ttl) ==
    LET expire_time == now - Micros(cache_ttl)
    IN  mtime > expire_time

\* the cache file GetData uses
CachePath(cache_file) == CachePathFormat(cache_dir, cache_file, args.platform, args.language)

NoTrace == [path |-> None, t |-> None, existed |-> FALSE, mtime |-> None, stored |-> None,
            hit |-> FALSE, throttled |-> FALSE, slept |-> FALSE, fetched |-> FALSE, response |-> None,
            wrote |-> FALSE]

Quit(status, at) ==
    /\ pc' = "exited"
    /\ exit_status' = Some(status)
    /\ exit_at' = at

Running(next) ==
    /\ pc' = next
    /\ UNCHANGED <<exit_status, exit_at>>

\* GetData up to the download: lines 125-147
GetDataLookup(fn, cache_file, url, cache_ttl) ==
    LET path == CachePath(cache_file)
        c    == [fn |-> fn, cache_file |-> cache_file, url |-> url, cache_ttl |-> cache_ttl]
    IN
    /\ call' = c
    /\ UNCHANGED <<now, cache_other, files, served, last_request, prev_request,
                   n_throttle, n_http, failed>>
    /\ IF cache_ttl = None
       THEN /\ trace' = NoTrace
            /\ Running("throttle")
            /\ UNCHANGED <<cache_dir_state, data, fs_ops>>
       ELSE IF cache_dir_state = "notdir"
       THEN \* raise OSError(errno.ENOTDIR, ...)
            /\ trace' = NoTrace
            /\ Quit(1, "oserror")
            /\ fs_ops' = fs_ops \cup {"exists", "isdir"}
            /\ UNCHANGED <<cache_dir_state, data>>
       ELSE /\ cache_dir_state' = "dir"
            /\ LET exists == path \in DOMAIN files
                   fresh  == exists /\ IsFresh(files[path].mtime, cache_ttl)
                   seen   == [NoTrace EXCEPT !.path = Some(path), !.t = Some(now),
                                             !.existed = exists,
                                             !.mtime = IF exists THEN Some(files[path].mtime) ELSE None,
                                             !.stored = IF exists THEN Some(files[path].content) ELSE None]
               IN  /\ fs_ops' = fs_ops \cup {"exists", "isdir", "exists_file"}
                                 \cup (IF cache_dir_state = "missing" THEN {"makedirs"} ELSE {})
                                 \cup (IF exists THEN {"getmtime"} ELSE {})
                                 \cup (IF fresh THEN {"read"} ELSE {})
                   /\ IF fresh
                      THEN /\ data' = JsonLoad(files[path].content)
                           /\ trace' = [seen EXCEPT !.hit = TRUE]
                           /\ Running("return")
                      ELSE /\ trace' = seen
                           /\ Running("throttle")
                           /\ UNCHANGED data

SleepNeededTenfold(time_left) == time_left >= 10 * Tolerance

\* if seconds_left >= 0.0005
SleepNeeded(time_left) == time_left >= Tolerance

\* ThrottleRequests, the first statement of DownloadJSON: lines 60-76
ThrottleRequests(Oversleep) ==
    /\ UNCHANGED otherVars
    /\ pc = "throttle"
    /\ \E over \in Oversleep :
         LET time_left == IF last_request = None THEN 0
                          ELSE last_request[1] + request_delay - now
             sleeps    == last_request # None /\ SleepNeeded(time_left)
             woke      == IF sleeps THEN now + time_left + over ELSE now
         IN  /\ now' = woke
             /\ last_request' = Some(woke)
             /\ prev_request' = last_request
             /\ trace' = [trace EXCEPT !.throttled = TRUE, !.slept = sleeps]
    /\ n_throttle' = n_throttle + 1
    /\ Running("request")
    /\ UNCHANGED <<run, args, ttl_items, ttl_orders, call, data, all_items, item_idx,
                   to_lookup, lookup_idx, retval>>
    /\ UNCHANGED <<cache_dir_state, cache_other, files, served>>
    /\ UNCHANGED <<n_http, order_calls, failed, fs_ops>>

\* The rest of DownloadJSON and of GetData: the request, which takes some time, then
\* the checks of the response and the update of the cache file: lines 86-120, 155-162
Download(Latencies) ==
    /\ UNCHANGED otherVars
    /\ pc = "request"
    /\ \E lat \in Latencies, resp \in Responses(call.url, served) :
         /\ now' = now + lat
         /\ n_http' = n_http + 1
         /\ IF DownloadFails(resp)
            THEN /\ Quit(1, "fetch")
                 /\ failed' = TRUE
                 /\ trace' = [trace EXCEPT !.fetched = TRUE]
                 /\ UNCHANGED <<data, files, served, fs_ops>>
            ELSE /\ Running("return")
                 /\ data' = resp.body[1]
                 /\ served' = served + 1
                 /\ trace' = [trace EXCEPT !.fetched = TRUE, !.response = resp.body,
                                           !.wrote = call.cache_ttl # None]
                 /\ IF call.cache_ttl # None
                    THEN LET path == CachePath(call.cache_file) IN
                         /\ files' = [p \in DOMAIN files \cup {path} |->
                                        IF p = path
                                        THEN [mtime |-> now + lat, content |-> JsonDump(resp.body[1])]
                                        ELSE files[p]]
                         /\ fs_ops' = fs_ops \cup {"write"}
                    ELSE UNCHANGED <<files, fs_ops>>
                 /\ failed' = (failed \/ resp.exc # "none" \/ ~resp.json
                                        \/ "error" \in DOMAIN resp.body[1])
    /\ UNCHANGED <<run, args, ttl_items, ttl_orders, last_request, call, all_items,
                   item_idx, to_lookup, lookup_idx, retval>>
    /\ UNCHANGED <<cache_dir_state, cache_other>>
    /\ UNCHANGED <<prev_request, n_throttle, order_calls>>

(***************************************************************************)
(* The main code.                                                          *)
(***************************************************************************)
\* ClearCache and quit(0): lines 462-466 and 166-187
ClearCacheCmd ==
    /\ UNCHANGED otherVars
    /\ pc = "parsed"
    /\ args.cmd = "clear_cache"
    /\ IF cache_dir_state = "missing"
       THEN /\ Quit(0, "clear_cache")
            /\ fs_ops' = fs_ops \cup {"exists"}
            /\ UNCHANGED <<cache_dir_state, files>>
       ELSE IF cache_dir_state = "notdir"
       THEN /\ Quit(1, "oserror")
            /\ fs_ops' = fs_ops \cup {"exists", "isdir"}
            /\ UNCHANGED <<cache_dir_state, files>>
       ELSE /\ Quit(0, "clear_cache")
            /\ files' = [p \in {} |-> None]
            /\ cache_dir_state' = IF cache_other THEN "dir" ELSE "missing"
            /\ fs_ops' = fs_ops \cup {"exists", "isdir", "scandir"}
                          \cup (IF DOMAIN files # {} THEN {"remove"} ELSE {})
                          \cup (IF cache_other THEN {} ELSE {"rmdir"})
    /\ UNCHANGED <<run, args, ttl_items, ttl_orders, last_request, call, data, all_items,
                   item_idx, to_lookup, lookup_idx, retval>>
    /\ UNCHANGED <<now, cache_other, served>>
    /\ UNCHANGED <<trace, prev_request, n_throttle, n_http, order_calls, failed>>

TtlOptionIgnoresNoCache(text) == StrToTimeDelta(text)

\* the TTL a --ttl option gives: None under --no-cache: lines 475-480
TtlOption(text) == IF args.no_cache THEN None ELSE StrToTimeDelta(text)

\* The item arguments and the TTL options: lines 468-487.  parser.error exits with 2.
Configure ==
    /\ UNCHANGED otherVars
    /\ pc = "parsed"
    /\ args.cmd # "clear_cache"
    /\ LET ti == TtlOption(args.ttl_items)
           to == TtlOption(args.ttl_orders)
       IN  IF args.items = <<>>
           THEN /\ Quit(2, "usage")
                /\ UNCHANGED <<ttl_items, ttl_orders>>
           ELSE /\ ttl_items' = ti
                /\ ttl_orders' = to
                /\ IF ~args.no_cache /\ (ti = None \/ to = None)
                   THEN Quit(2, "ttl")
                   ELSE Running("get_all_items")
    /\ UNCHANGED <<run, args, last_request, call, data, all_items, item_idx, to_lookup,
                   lookup_idx, retval>>
    /\ UNCHANGED envVars
    /\ UNCHANGED <<trace, prev_request, n_throttle, n_http, order_calls, failed, fs_ops>>

\* all_items = GetAllItems(s, ttl_items), up to the download: lines 491, 191-195
GetAllItems ==
    /\ UNCHANGED otherVars
    /\ pc = "get_all_items"
    /\ GetDataLookup("items", AllItemsFile, <<"i", "t", "e", "m", "s">>, ttl_items)
    /\ UNCHANGED <<run, args, ttl_items, ttl_orders, all_items, item_idx, to_lookup,
                   lookup_idx, retval, order_calls>>

\* GetData returns to GetAllItems, which sorts the items: lines 200-204
GetAllItemsReturn ==
    /\ UNCHANGED otherVars
    /\ pc = "return"
    /\ call.fn = "items"
    /\ IF "payload" \in DOMAIN data
       THEN /\ all_items' = SortByName(data.payload.items)
            /\ Running("resolve")
       ELSE \* data['payload'] raises KeyError
            /\ Quit(1, "key_error")
            /\ UNCHANGED all_items
    /\ UNCHANGED <<run, args, ttl_items, ttl_orders, last_request, call, data, item_idx,
                   to_lookup, lookup_idx, retval>>
    /\ UNCHANGED envVars
    /\ UNCHANGED <<trace, prev_request, n_throttle, n_http, order_calls, failed, fs_ops>>

RECURSIVE ExtendNew(_, _)
\* to_lookup.extend(m for m in matches if m not in to_lookup)
ExtendNew(list, ms) ==
    IF ms = <<>> THEN list
    ELSE ExtendNew(IF \E i \in 1..Len(list) : list[i] = Head(ms)
                   THEN list ELSE Append(list, Head(ms)),
                   Tail(ms))

QuitsOnMissNever == FALSE

\* whether the main code quits at a pattern that matched nothing
QuitsOnMiss == ~(args.cmd = "list")

\* One turn of the loop over args.items: lines 505-512
ResolvePattern ==
    /\ UNCHANGED otherVars
    /\ pc = "resolve"
    /\ item_idx <= Len(args.items)
    /\ LET ms == FindMatchingItems(args.items[item_idx], all_items) IN
       /\ to_lookup' = ExtendNew(to_lookup, ms)
       /\ retval' = IF Len(ms) = 0 THEN 1 ELSE retval
       /\ IF Len(ms) = 0 /\ QuitsOnMiss
          THEN Quit(1, "not_found")
          ELSE Running("resolve")
    /\ item_idx' = item_idx + 1
    /\ UNCHANGED <<run, args, ttl_items, ttl_orders, last_request, call, data, all_items,
                   lookup_idx>>
    /\ UNCHANGED envVars
    /\ UNCHANGED <<trace, prev_request, n_throttle, n_http, order_calls, failed, fs_ops>>

RECURSIVE InsertName(_, _, _)
InsertName(sorted, x, reverse) ==
    IF sorted = <<>> THEN <<x>>
    ELSE IF (IF reverse THEN StrLess(Head(sorted), x) ELSE StrLess(x, Head(sorted)))
         THEN <<x>> \o sorted
    ELSE <<Head(sorted)>> \o InsertName(Tail(sorted), x, reverse)

RECURSIVE SortNames(_, _)
\* list.sort(reverse=reverse) on strings
SortNames(list, reverse) ==
    IF list = <<>> THEN <<>>
    ELSE InsertName(SortNames(SubSeq(list, 1, Len(list) - 1), reverse), list[Len(list)], reverse)

\* Listing mode: lines 514-518
ListItems ==
    /\ UNCHANGED otherVars
    /\ pc = "resolve"
    /\ item_idx > Len(args.items)
    /\ args.cmd = "list"
    /\ to_lookup' = SortNames(to_lookup, args.reverse)
    /\ Quit(retval, "list")
    /\ UNCHANGED <<run, args, ttl_items, ttl_orders, last_request, call, data, all_items,
                   item_idx, lookup_idx, retval>>
    /\ UNCHANGED envVars
    /\ UNCHANGED <<trace, prev_request, n_throttle, n_http, order_calls, failed, fs_ops>>

\* the first item of all_items with this name: lines 209-216
FindItem(name) ==
    LET hits == {i \in 1..Len(all_items) : all_items[i].item_name = name}
    IN  IF hits = {} THEN None
        ELSE Some(all_items[CHOOSE i \in hits : \A h \in hits : i <= h])

\* orders = GetItemOrders(s, ttl_orders, all_items, item), up to the download:
\* lines 520-521, 208-224
GetItemOrders ==
    /\ UNCHANGED otherVars
    /\ pc = "resolve"
    /\ item_idx > Len(args.items)
    /\ args.cmd # "list"
    /\ lookup_idx <= Len(to_lookup)
    /\ LET item == FindItem(to_lookup[lookup_idx]) IN
       IF item = None
       THEN \* raise NameError
            /\ Quit(1, "name_error")
            /\ UNCHANGED <<envVars, last_request, call, data, trace, prev_request,
                           n_throttle, n_http, failed, fs_ops>>
       ELSE GetDataLookup("orders", OrdersFile(item[1].url_name), item[1].url_name, ttl_orders)
    /\ order_calls' = order_calls + 1
    /\ UNCHANGED <<run, args, ttl_items, ttl_orders, all_items, item_idx, to_lookup,
                   lookup_idx, retval>>

\* GetData returns to GetItemOrders and the loop body shows the orders: lines 226-230
\* and 523-544 (what is shown is modelled by ShowOrders)
GetItemOrdersReturn ==
    /\ UNCHANGED otherVars
    /\ pc = "return"
    /\ call.fn = "orders"
    /\ IF "payload" \in DOMAIN data
       THEN /\ lookup_idx' = lookup_idx + 1
            /\ Running("resolve")
       ELSE \* data['payload'] raises KeyError
            /\ Quit(1, "key_error")
            /\ UNCHANGED lookup_idx
    /\ UNCHANGED <<run, args, ttl_items, ttl_orders, last_request, call, data, all_items,
                   item_idx, to_lookup, retval>>
    /\ UNCHANGED envVars
    /\ UNCHANGED <<trace, prev_request, n_throttle, n_http, order_calls, failed, fs_ops>>

\* The end of the main code: lines 546-552
Finish ==
    /\ UNCHANGED otherVars
    /\ pc = "resolve"
    /\ item_idx > Len(args.items)
    /\ args.cmd # "list"
    /\ lookup_idx > Len(to_lookup)
    /\ Quit(0, "end")
    /\ UNCHANGED <<run, args, ttl_items, ttl_orders, last_request, call, data, all_items,
                   item_idx, to_lookup, lookup_idx, retval>>
    /\ UNCHANGED envVars
    /\ UNCHANGED <<trace, prev_request, n_throttle, n_http, order_calls, failed, fs_ops>>

(***************************************************************************)
(* Processes and their environment.                                        *)
(***************************************************************************)
NoCall == [fn |-> "none", cache_file |-> <<>>, url |-> <<>>, cache_ttl |-> None]

\* the state of a process as the main code starts, after parse_args: lines 24-25, 57, 348
StartProcess(a) ==
    /\ pc = "parsed"
    /\ args = a
    /\ ttl_items = None
    /\ ttl_orders = None
    /\ last_request = None
    /\ call = NoCall
    /\ data = None
    /\ all_items = <<>>
    /\ item_idx = 1
    /\ to_lookup = <<>>
    /\ lookup_idx = 1
    /\ retval = 0
    /\ exit_status = None
    /\ exit_at = "running"
    /\ trace = NoTrace
    /\ prev_request = None
    /\ n_throttle = 0
    /\ n_http = 0
    /\ order_calls = 0
    /\ failed = FALSE
    /\ fs_ops = {}

\* how many processes are run one after the other
MaxRuns == 2

\* After a process has exited the user runs the program again, some time later:
\* a new process, on the cache directory the earlier ones left.
Restart(ArgSet, Gaps) ==
    /\ UNCHANGED otherVars
    /\ pc = "exited"
    /\ run < MaxRuns
    /\ run' = run + 1
    /\ \E gap \in Gaps : now' = now + gap
    /\ \E a \in ArgSet : args' = a
    /\ pc' = "parsed"
    /\ ttl_items' = None
    /\ ttl_orders' = None
    /\ last_request' = None
    /\ call' = NoCall
    /\ data' = None
    /\ all_items' = <<>>
    /\ item_idx' = 1
    /\ to_lookup' = <<>>
    /\ lookup_idx' = 1
    /\ retval' = 0
    /\ exit_status' = None
    /\ exit_at' = "running"
    /\ trace' = NoTrace
    /\ prev_request' = None
    /\ n_throttle' = 0
    /\ n_http' = 0
    /\ order_calls' = 0
    /\ failed' = FALSE
    /\ fs_ops' = {}
    /\ UNCHANGED <<cache_dir_state, cache_other, files, served>>

Arg(cmd, no_cache, ti, to, rate, items, reverse) ==
    [cmd |-> cmd, no_cache |-> no_cache, ttl_items |-> ti, ttl_orders |-> to,
     platform |-> <<"p", "c">>, language |-> <<"e", "n">>, rate_limit |-> rate, items |-> items,
     reverse |-> reverse]

\* the states of the cache directory a first process can find
FreshDisks ==
    {[state |-> "missing", other |-> FALSE], [state |-> "dir", other |-> FALSE],
     [state |-> "dir", other |-> TRUE], [state |-> "notdir", other |-> FALSE]}

IdleResolve == item_name = <<>> /\ catalog = <<>> /\ matches = None
IdleOrders == flags = None /\ orders = <<>> /\ shown = None
IdlePaths == key1 = None /\ key2 = None /\ paths = None
IdleMain ==
    /\ StartProcess(None)
    /\ run = 0 /\ now = 0 /\ cache_dir_state = "missing" /\ cache_other = FALSE
    /\ files = [p \in {} |-> None] /\ served = 0

(***************************************************************************)
(* Spec: processes run one after the other on one cache directory.         *)
(***************************************************************************)
CacheArgs ==
    {Arg("clear_cache", FALSE, <<"1", "d">>, <<"1", "0", "m">>, 180, <<>>, FALSE)}
    \cup {Arg(cmd, FALSE, t[1], t[2], 180, << <<"a", "b">> >>, FALSE) :
            cmd \in {"list", "orders"}, t \in {<< <<"1", "m">>, <<"1">> >>, << <<"1">>, <<"1", "m">> >>}}
    \cup {Arg("orders", TRUE, <<"1", "d">>, <<"1", "0", "m">>, 180, << <<"a", "b">> >>, FALSE)}

\* the time between two processes: none, a microsecond less than a second, a second, a minute
Gaps == {0, Second - 1, Second, Minute}

\* how long a request takes
Latencies == {0, 2 * Second}

Init ==
    /\ run = 1
    /\ now = 0
    /\ \E d \in FreshDisks : cache_dir_state = d.state /\ cache_other = d.other
    /\ files = [p \in {} |-> None]
    /\ served = 0
    /\ \E a \in CacheArgs : StartProcess(a)
    /\ IdleResolve /\ IdleOrders /\ IdlePaths

Next ==
    \/ ClearCacheCmd
    \/ Configure
    \/ GetAllItems
    \/ ThrottleRequests({0})
    \/ Download(Latencies)
    \/ GetAllItemsReturn
    \/ ResolvePattern
    \/ ListItems
    \/ GetItemOrders
    \/ GetItemOrdersReturn
    \/ Finish
    \/ Restart(CacheArgs, Gaps)

Spec == Init /\ [][Next]_vars

(***************************************************************************)
(* SpecRun: one process, over the command lines and the response times     *)
(* that decide its course.                                                 *)
(***************************************************************************)
\* --ttl-items and --ttl-orders: empty, malformed, a second, a minute
TtlStrings == { <<>>, <<"5", "x">>, <<"1">>, <<"1", "m">> }

\* --rate-limit: request_delay is exact for 60 and rounded down for 180 and up for 7
RateLimits == {60, 180, 7}

\* the item arguments
ItemLists ==
    { <<>>, << <<"a", "*">> >>, << <<"z", "z">> >>, << <<"a", "*">>, <<"z", "z">> >>, << <<"a", "b">>, <<"a", "?">> >>, << <<"b", " ", "p">> >> }

RunArgs ==
    {Arg("clear_cache", FALSE, <<"1", "d">>, <<"1", "0", "m">>, 180, <<>>, FALSE)}
    \cup {Arg("list", nc, t[1], t[2], 180, items, reverse) :
            nc \in {FALSE}, t \in TtlStrings \X TtlStrings, items \in ItemLists,
            reverse \in BOOLEAN}
    \cup {Arg("orders", FALSE, t[1], t[2], rate, items, FALSE) :
            t \in TtlStrings \X TtlStrings, rate \in RateLimits, items \in ItemLists}
    \cup {Arg(cmd, TRUE, <<"1", "d">>, <<"1", "0", "m">>, rate, items, FALSE) :
            cmd \in {"list", "orders"}, rate \in RateLimits, items \in ItemLists}

\* How long a request takes: no time, or so long that the next request comes
\* request_delay after it, or the tolerance or a microsecond less than the
\* tolerance before that.
BoundaryLatencies ==
    {0, request_delay - Tolerance, request_delay - Tolerance + 1, request_delay}

\* how much longer than asked time.sleep can sleep
Oversleeps == {0, 1}

\* the cache directory a run with --ttl-items 1m --ttl-orders 1m for "ab" left behind
UsedCache ==
    [p \in {CachePathFormat(cache_dir, AllItemsFile, <<"p", "c">>, <<"e", "n">>),
            CachePathFormat(cache_dir, OrdersFile(<<"a", "b">>), <<"p", "c">>, <<"e", "n">>)} |->
        IF p = CachePathFormat(cache_dir, AllItemsFile, <<"p", "c">>, <<"e", "n">>)
        THEN [mtime |-> 0, content |-> JsonDump(Payload(<<"i", "t", "e", "m", "s">>, 0))]
        ELSE [mtime |-> 0, content |-> JsonDump(Payload(<<"a", "b">>, 1))]]

InitRun ==
    /\ run = 1
    /\ \/ /\ now = 0
          /\ \E d \in FreshDisks : cache_dir_state = d.state /\ cache_other = d.other
          /\ files = [p \in {} |-> None]
          /\ served = 0
       \/ /\ now = 30 * Second
          /\ cache_dir_state = "dir"
          /\ cache_other = FALSE
          /\ files = UsedCache
          /\ served = 2
    /\ \E a \in RunArgs : StartProcess(a)
    /\ IdleResolve /\ IdleOrders /\ IdlePaths

NextRun ==
    \/ ClearCacheCmd
    \/ Configure
    \/ GetAllItems
    \/ ThrottleRequests(Oversleeps)
    \/ Download(BoundaryLatencies)
    \/ GetAllItemsReturn
    \/ ResolvePattern
    \/ ListItems
    \/ GetItemOrders
    \/ GetItemOrdersReturn
    \/ Finish

SpecRun == InitRun /\ [][NextRun]_vars

(***************************************************************************)
(* The cache in front of the fetcher.                                      *)
(***************************************************************************)
\* the GetData call in progress was made with a TTL and has returned
ReturnedWithTtl == pc = "return" /\ call.cache_ttl # None

\* C1: GetData with a TTL returns the stored payload, without a fetch and
\* without a call of ThrottleRequests, when the cache file exists and its
\* modification time is later than now - ttl; otherwise it fetches, overwrites
\* the cache file with the result and returns that result.  So the payload a
\* file holds, written at w, is what a call at t returns when t - w < ttl, and is
\* not what it returns when t - w >= ttl.
C1_CacheHitOrFetch ==
    /\ ReturnedWithTtl =>
         LET path  == trace.path[1]
             ttl   == call.cache_ttl[1] * Second
             young == trace.existed /\ trace.t[1] - trace.mtime[1] < ttl
         IN  /\ path = CachePathFormat(cache_dir, call.cache_file, args.platform, args.language)
             /\ young =>
                  /\ JsonDump(data) = trace.stored[1]
                  /\ ~trace.fetched /\ ~trace.throttled
                  /\ files[path] = [mtime |-> trace.mtime[1], content |-> trace.stored[1]]
             /\ ~young =>
                  /\ trace.fetched
                  /\ trace.response = Some(data)
                  /\ data.serial = served - 1
                  /\ files[path] = [mtime |-> now, content |-> JsonDump(data)]
                  /\ trace.existed => JsonDump(data) # trace.stored[1]
    /\ (pc \in {"throttle", "request"} /\ call.cache_ttl # None) =>
         ~(trace.existed /\ trace.t[1] - trace.mtime[1] < call.cache_ttl[1] * Second)

\* a later process finds the orders a microsecond younger than the TTL and uses them
C1_Witness ==
    /\ ReturnedWithTtl
    /\ run > 1
    /\ trace.hit
    /\ trace.t[1] - trace.mtime[1] = call.cache_ttl[1] * Second - 1

\* a later process finds a cache file exactly as old as the TTL and fetches
C1_WitnessExpired ==
    /\ ReturnedWithTtl
    /\ trace.existed /\ trace.fetched
    /\ trace.t[1] - trace.mtime[1] = call.cache_ttl[1] * Second

\* C2: under --no-cache every GetData call fetches and returns the response, and
\* the process never looks at, creates, reads or writes the cache directory or
\* a cache file, whatever the directory holds.
C2_NoCacheNoDisk ==
    (args.cmd # "clear_cache" /\ args.no_cache) =>
        /\ fs_ops = {}
        /\ ttl_items = None /\ ttl_orders = None
        /\ pc = "return" => trace.fetched /\ trace.response = Some(data) /\ ~trace.wrote
        /\ pc \in {"throttle", "request", "return"} => trace.path = None

\* a process under --no-cache has fetched although the cache holds files
C2_Witness ==
    /\ args.cmd # "clear_cache" /\ args.no_cache
    /\ pc = "return"
    /\ DOMAIN files # {}

(***************************************************************************)
(* The throttle.                                                           *)
(***************************************************************************)
\* C4: two consecutive last_request timestamps of a process are at least
\* 60 s / rate_limit - 0.5 ms apart (compared after multiplying by rate_limit);
\* the first fetch does not sleep; the timestamp is taken after the sleep and
\* before the request is issued.
C4_ThrottleSpacing ==
    /\ (last_request # None /\ prev_request # None) =>
         (last_request[1] - prev_request[1]) * args.rate_limit
             >= Minute - Tolerance * args.rate_limit
    /\ (pc = "request" /\ n_throttle = 1) => ~trace.slept
    /\ pc = "request" => last_request = Some(now) /\ n_http = n_throttle - 1
    /\ pc # "request" => n_http = n_throttle
    /\ (n_throttle = 0) = (last_request = None)

\* a second request came a microsecond inside the tolerance and was not delayed
C4_Witness ==
    /\ pc = "request"
    /\ prev_request # None
    /\ ~trace.slept
    /\ last_request[1] - prev_request[1] = request_delay - Tolerance + 1
    /\ args.rate_limit = 180

\* a second request was delayed, and the sleep took longer than asked
C4_WitnessSlept ==
    /\ pc = "request"
    /\ prev_request # None
    /\ trace.slept
    /\ last_request[1] - prev_request[1] > request_delay

(***************************************************************************)
(* Failures.                                                               *)
(***************************************************************************)
\* C5: after a failed fetch the process has exited with a status that is not 0,
\* the cache file of the request is as GetData found it, and nothing more is
\* requested or written.
C5_FailedFetchIsFatal ==
    /\ [](failed =>
            /\ pc = "exited"
            /\ exit_status # None /\ exit_status # Some(0)
            /\ ~trace.wrote
            /\ trace.path # None =>
                 IF trace.existed
                 THEN files[trace.path[1]] = [mtime |-> trace.mtime[1], content |-> trace.stored[1]]
                 ELSE trace.path[1] \notin DOMAIN files)
    /\ [][failed => UNCHANGED <<n_http, n_throttle, files, pc>>]_vars
    /\ [][(n_http' # n_http /\ failed') => (files' = files /\ pc' = "exited")]_vars

\* the fetch of an item's orders failed after the catalog was fetched and cached
C5_Witness ==
    /\ failed
    /\ call.fn = "orders"
    /\ n_http = 2
    /\ DOMAIN files # {}

\* the TTL string is not empty and StrToTimeDelta does not parse it
Malformed(text) == text # <<>> /\ TimeMatch(text) = None

\* C6: an empty --ttl-items or --ttl-orders turns caching off for that resource and
\* the run goes on; a malformed one is rejected as a configuration error.
C6_EmptyTtlDisablesCache ==
    (pc # "parsed" /\ args.cmd # "clear_cache" /\ ~args.no_cache /\ args.items # <<>>) =>
        /\ (Malformed(args.ttl_items) \/ Malformed(args.ttl_orders)) => exit_at = "ttl"
        /\ (~Malformed(args.ttl_items) /\ ~Malformed(args.ttl_orders)) =>
             /\ exit_at # "ttl"
             /\ args.ttl_items = <<>> => ttl_items = None
             /\ args.ttl_orders = <<>> => ttl_orders = None

(***************************************************************************)
(* Patterns that match nothing.                                            *)
(***************************************************************************)
\* the patterns that match nothing in the catalog, by position
Misses == {i \in 1..Len(args.items) : FindMatchingItems(args.items[i], all_items) = <<>>}

\* C8: in order mode the process quits with a status that is not 0 at the first
\* pattern that matches nothing, before any GetItemOrders call; orders are only
\* fetched when every pattern has matched; and when every pattern matches and
\* no fetch fails the process ends with status 0.
C8_MissIsFatalBeforeOrders ==
    LET past == item_idx - 1 IN
    (args.cmd = "orders" /\ all_items # <<>>) =>
        /\ (pc # "exited" \/ exit_at = "not_found") => \A i \in Misses : i >= past
        /\ (past \in Misses) =>
             /\ pc = "exited" /\ exit_at = "not_found"
             /\ exit_status # None /\ exit_status # Some(0)
             /\ order_calls = 0
             /\ n_http <= 1
        /\ order_calls > 0 => Misses = {}
        /\ (pc = "exited" /\ Misses = {} /\ ~failed) =>
             /\ exit_status = Some(0)
             /\ order_calls = Len(to_lookup)

\* the second pattern matched nothing after the first had matched two items
C8_Witness ==
    /\ args.cmd = "orders"
    /\ exit_at = "not_found"
    /\ item_idx = 3
    /\ Len(to_lookup) = 2
    /\ order_calls = 0

(***************************************************************************)
(* SpecPaths: the cache file GetData computes, for two resources.          *)
(***************************************************************************)
\* args.platform: the choices of --platform
Platforms == { <<"p", "c">>, <<"p", "s", "4">>, <<"s", "w", "i", "t", "c", "h">>, <<"x", "b", "o", "x">> }

\* args.language: any string
Languages == { <<"e", "n">>, <<"d", "e">>, <<"y", "-", "o", "r", "d", "e", "r", "s", "-", "p", "c", "-", "e", "n">> }

\* item['url_name']: whatever the catalog holds
UrlNames == { <<"x">>, <<"a", "l", "l", "_", "i", "t", "e", "m", "s">>, <<"x", "-", "o", "r", "d", "e", "r", "s", "-", "p", "c", "-", "y">> }

\* cache_file: that of GetAllItems or that of GetItemOrders
CacheFiles == {AllItemsFile} \cup {OrdersFile(u) : u \in UrlNames}

Keys == CacheFiles \X Platforms \X Languages

InitPaths ==
    /\ key1 \in Keys
    /\ key2 \in Keys
    /\ paths = None
    /\ IdleMain /\ IdleResolve /\ IdleOrders

\* the assignment to cache_file in GetData, for either resource: lines 134-135
FormatPaths ==
    /\ paths = None
    /\ paths' = Some(<<CachePathFormat(cache_dir, key1[1], key1[2], key1[3]),
                       CachePathFormat(cache_dir, key2[1], key2[2], key2[3])>>)
    /\ UNCHANGED <<key1, key2, mainVars, resolveVars, orderVars>>

SpecPaths == InitPaths /\ [][FormatPaths]_vars

\* C3: two resources that differ in name, platform or language have different
\* cache files.
C3_PathsInjective ==
    (paths # None /\ key1 # key2) => paths[1][1] # paths[1][2]

(***************************************************************************)
(* SpecResolve: FindMatchingItems on a pattern and a sorted catalog.       *)
(***************************************************************************)
Item(name) == [item_name |-> name, url_name |-> name]

Catalogs ==
    { SortByName(<< Item(<<"E", "m", "b", "o", "l", "i", "s", "t">>), Item(<<"E", "m", "b", "e", "r", " ", "P", "r", "i", "m", "e", " ", "S", "y", "s", "t", "e", "m", "s">>),
                    Item(<<"T", "r", "i", "n", "i", "t", "y", " ", "P", "r", "i", "m", "e", " ", "B", "l", "u", "e", "p", "r", "i", "n", "t">>), Item(<<"E", "m", "b", "e", "r", " ", "P", "r", "i", "m", "e", " ", "B", "l", "u", "e", "p", "r", "i", "n", "t">>),
                    Item(<<"E", "m", "b", "e", "r", " ", "P", "r", "i", "m", "e", " ", "C", "h", "a", "s", "s", "i", "s">>) >>),
      SortByName(<< Item(<<"A", "s", "h", " ", "P", "r", "i", "m", "e">>), Item(<<"A", "s", "h", " ", "P">>), Item(<<"B", "p">>),
                    Item(<<"B", "r", "a", "t", "o", "n", " ", "P", "r", "i", "m", "e", " ", "B", "a", "r", "r", "e", "l">>), Item(<<"A", "n", "a", "s", "a", " ", "S", "c", "u", "l", "p", "t", "u", "r", "e">>) >>),
      <<>> }

Patterns ==
    { <<"e", "m", "b", "e", "r", " ", "p", "r", "i", "m", "e", "*">>, <<"E", "M", "B", "E", "R", " ", "P", "R", "I", "M", "E", "*">>, <<"E", "m", "b", "e", "r", " ", "P", "r", "i", "m", "e", " ", "C", "h", "a", "s", "s", "i", "s">>, <<"t", "r", "i", "n", "i", "t", "y", " ", "p", " ", "b", "p">>,
      <<"T", "r", "i", "n", "i", "t", "y", " ", "P", " ", "B", "P">>, <<"t", "r", "i", "n", "*", "b", "p">>, <<"e", "*", " ", "p", " ", "s", "y", "s">>, <<"e", "m", "b", "e", "r", " ", "p", " ", "c", "h", "a">>, <<"e", "m", "b", "e", "r", " ", "p", " ", "c", "h", "a", "s", "s">>,
      <<"e", "m", "b", "e", "r", " ", "p", "p", " ", "s", "y", "s">>, <<"e", "m", "b", "o", "l", "i", "s", "t">>, <<"e", "m", "b", "?", "l", "i", "s", "t">>, <<"e", "m", "[", "a", "-", "c", "]", "*">>, <<"e", "m", "b", "e", "r", " ", "[", "!", "b", "]", "*">>,
      <<"e", "m", "b", "e", "r", " ", "p", " ", "[", "a", "-", "p", "]", "*">>, <<"p">>, <<"*">>, <<>>, <<"z", "z">>, <<"a", "s", "h", " ", "p">>, <<"a", "s", "h", " ", "p", "*">>, <<"a", "s", "h", "?", "p">>,
      <<"b", "p">>, <<"?", " ", "p">>, <<"*", "p">>, <<"b", "r", "a", "t", "*", "b", "r", "l">>, <<"*", "s", "c", "u", "l">>, <<"*", " ", "p", " ", "*">>, <<"e", "m", "b", "e", "r", "_", "p", " ", "s", "y", "s">>,
      <<"e", "m", "b", "e", "r", " ", "p", "*", "s", "y", "s">>, <<"[", "x">> }

InitResolve ==
    /\ item_name \in Patterns
    /\ catalog \in Catalogs
    /\ matches = None
    /\ IdleMain /\ IdleOrders /\ IdlePaths

\* matches = FindMatchingItems(item, all_items): line 506
Resolve ==
    /\ matches = None
    /\ matches' = Some(FindMatchingItems(item_name, catalog))
    /\ UNCHANGED <<item_name, catalog, mainVars, orderVars, pathVars>>

SpecResolve == InitResolve /\ [][Resolve]_vars

\* the display names of the catalog that the pattern matches, in catalog order
NamesMatching(pattern) ==
    LET names == [i \in 1..Len(catalog) |-> catalog[i].item_name]
    IN  SelectSeq(names, LAMBDA n : GlobMatch(pattern, n))

\* a word after every rule of the table, in table order, has been applied to it
RECURSIVE ExpandWord(_, _)
ExpandWord(word, k) ==
    IF k > Len(name_replacements) THEN word
    ELSE LET rule  == name_replacements[k]
             lower == [i \in 1..Len(word) |-> Lower(word[i])]
         IN  ExpandWord(IF \E a \in 1..Len(rule.alts) : rule.alts[a] = lower
                        THEN rule.repl ELSE word, k + 1)

RECURSIVE WordLen(_)
\* the length of the run of word characters s starts with
WordLen(s) == IF s = <<>> \/ ~IsWord(Head(s)) THEN 0 ELSE 1 + WordLen(Tail(s))

RECURSIVE ExpandWords(_)
\* the pattern with each of its whole words expanded
ExpandWords(s) ==
    IF s = <<>> THEN <<>>
    ELSE LET n == WordLen(s) IN
         IF n = 0 THEN <<Head(s)>> \o ExpandWords(Tail(s))
         ELSE ExpandWord(SubSeq(s, 1, n), 1) \o ExpandWords(Drop(s, n + 1))

\* C7: FindMatchingItems returns, in catalog order, the names the pattern fully
\* matches without regard to case; only when there are none it returns the names
\* that the pattern with its whole words expanded by the abbreviation table
\* matches, which may be none.  The examples of the specification come out.
C7_ResolveOnceExpanded ==
    matches # None =>
        LET raw == NamesMatching(item_name) IN
        /\ raw # <<>> => matches[1] = raw
        /\ raw = <<>> => matches[1] = NamesMatching(ExpandWords(item_name))
        /\ (item_name = <<"t", "r", "i", "n", "i", "t", "y", " ", "p", " ", "b", "p">> /\ Len(catalog) = 5 /\ catalog[1].item_name = <<"E", "m", "b", "e", "r", " ", "P", "r", "i", "m", "e", " ", "B", "l", "u", "e", "p", "r", "i", "n", "t">>)
             => matches[1] = << <<"T", "r", "i", "n", "i", "t", "y", " ", "P", "r", "i", "m", "e", " ", "B", "l", "u", "e", "p", "r", "i", "n", "t">> >>
        /\ (item_name = <<"e", "m", "b", "e", "r", " ", "p", "r", "i", "m", "e", "*">> /\ Len(catalog) = 5 /\ catalog[1].item_name = <<"E", "m", "b", "e", "r", " ", "P", "r", "i", "m", "e", " ", "B", "l", "u", "e", "p", "r", "i", "n", "t">>)
             => matches[1] = << <<"E", "m", "b", "e", "r", " ", "P", "r", "i", "m", "e", " ", "B", "l", "u", "e", "p", "r", "i", "n", "t">>, <<"E", "m", "b", "e", "r", " ", "P", "r", "i", "m", "e", " ", "C", "h", "a", "s", "s", "i", "s">>,
                                <<"E", "m", "b", "e", "r", " ", "P", "r", "i", "m", "e", " ", "S", "y", "s", "t", "e", "m", "s">> >>

\* "ash p" matches the item Ash P as written and is not expanded to Ash Prime
C7_Witness ==
    /\ matches = Some(<< <<"A", "s", "h", " ", "P">> >>)
    /\ item_name = <<"a", "s", "h", " ", "p">>
    /\ NamesMatching(ExpandWords(item_name)) = << <<"A", "s", "h", " ", "P", "r", "i", "m", "e">> >>

\* an abbreviated pattern matched only after the expansion
C7_WitnessExpanded ==
    /\ matches # None /\ matches # Some(<<>>)
    /\ NamesMatching(item_name) = <<>>
    /\ item_name = <<"e", "*", " ", "p", " ", "s", "y", "s">>

(***************************************************************************)
(* SpecOrders: what the loop body of the main code does with the orders of *)
(* one item.  flags holds the options it reads from args.                  *)
(***************************************************************************)
Order(id, order_type, status, platform, region, platinum) ==
    [id |-> id, order_type |-> order_type, user |-> [status |-> status],
     platform |-> platform, region |-> region, platinum |-> platinum, quantity |-> 1]

\* the orders the API can serve for an item, in the API's order
ServerOrders ==
    << Order(1, "sell", "ingame", "pc", "en", 30),
       Order(2, "sell", "online", "pc", "en", 10),
       Order(3, "sell", "offline", "pc", "en", 5),
       Order(4, "sell", "ingame", "pc", "en", 20),
       Order(5, "buy", "ingame", "pc", "en", 8),
       Order(6, "sell", "online", "pc", "en", 100),
       Order(7, "sell", "ingame", "xbox", "en", 7),
       Order(8, "sell", "ingame", "pc", "en", 15),
       Order(9, "sell", "online", "pc", "de", 3),
       Order(10, "sell", "ingame", "pc", "en", 12),
       Order(11, "buy", "online", "pc", "en", 9),
       Order(12, "sell", "online", "pc", "en", 10) >>

\* the orders of ServerOrders at the positions in ids, in order
RECURSIVE Pick(_, _)
Pick(ids, i) ==
    IF i > Len(ServerOrders) THEN <<>>
    ELSE (IF i \in ids THEN <<ServerOrders[i]>> ELSE <<>>) \o Pick(ids, i + 1)

OrderLists == {Pick(ids, 1) : ids \in SUBSET (1..Len(ServerOrders))}

Flags ==
    [buyers : BOOLEAN, reverse : BOOLEAN, summary : BOOLEAN, all : BOOLEAN,
     platform : {"pc", "xbox"}, language : {"en"}]

FilterUsersKeepsOffline(order) ==
    order.platform = flags[1].platform /\ order.region = flags[1].language

\* FilterUsers: lines 271-279
FilterUsers(order) ==
    IF order.user.status = "offline" THEN FALSE
    ELSE IF order.platform # flags[1].platform THEN FALSE
    ELSE IF order.region # flags[1].language THEN FALSE
    ELSE TRUE

\* FilterBuyers: lines 255-259
FilterBuyers(order) == IF order.order_type # "buy" THEN FALSE ELSE FilterUsers(order)

\* FilterSellers: lines 263-267
FilterSellers(order) == IF order.order_type # "sell" THEN FALSE ELSE FilterUsers(order)

\* GetPrice
GetPrice(order) == order.platinum

RECURSIVE InsertByPrice(_, _, _)
\* x goes after the orders that do not come after it: the sort is stable
InsertByPrice(sorted, x, reverse) ==
    IF sorted = <<>> THEN <<x>>
    ELSE IF (IF reverse THEN GetPrice(Head(sorted)) < GetPrice(x)
                        ELSE GetPrice(x) < GetPrice(Head(sorted)))
         THEN <<x>> \o sorted
    ELSE <<Head(sorted)>> \o InsertByPrice(Tail(sorted), x, reverse)

RECURSIVE SortByPrice(_, _)
\* list.sort(key=GetPrice, reverse=reverse)
SortByPrice(list, reverse) ==
    IF list = <<>> THEN <<>>
    ELSE InsertByPrice(SortByPrice(SubSeq(list, 1, Len(list) - 1), reverse),
                       list[Len(list)], reverse)

\* list[:n]
Slice(list, n) == SubSeq(list, 1, IF Len(list) < n THEN Len(list) ELSE n)

RECURSIVE Sum(_)
Sum(xs) == IF xs = <<>> THEN 0 ELSE Head(xs) + Sum(Tail(xs))

RECURSIVE MinOf(_)
MinOf(xs) ==
    IF Len(xs) = 1 THEN xs[1]
    ELSE LET m == MinOf(Tail(xs)) IN IF xs[1] <= m THEN xs[1] ELSE m

RECURSIVE MaxOf(_)
MaxOf(xs) ==
    IF Len(xs) = 1 THEN xs[1]
    ELSE LET m == MaxOf(Tail(xs)) IN IF xs[1] >= m THEN xs[1] ELSE m

\* list.remove(x): without the first element equal to x
RECURSIVE Remove(_, _)
Remove(xs, x) ==
    IF xs = <<>> THEN <<>>
    ELSE IF Head(xs) = x THEN Tail(xs)
    ELSE <<Head(xs)>> \o Remove(Tail(xs), x)

\* NoMinMax: lines 283-290.  Nothing calls it.
NoMinMax(xs) ==
    IF Len(xs) > 5 THEN Remove(Remove(xs, MinOf(xs)), MaxOf(Remove(xs, MinOf(xs)))) ELSE xs

\* round(statistics.mean(xs))
RoundedMean(xs) == RoundHalfEven(Sum(xs), Len(xs))

\* round(statistics.stdev(xs)): the integer nearest to the square root of the
\* sample variance n / d, the even one of two that are equally near
RoundedStdev(xs) ==
    LET k    == Len(xs)
        n    == k * Sum([i \in 1..k |-> xs[i] * xs[i]]) - Sum(xs) * Sum(xs)
        d    == k * (k - 1)
        near == {r \in 0..MaxOf(xs) :
                    /\ (r = 0 \/ (2 * r - 1) * (2 * r - 1) * d <= 4 * n)
                    /\ 4 * n <= (2 * r + 1) * (2 * r + 1) * d}
    IN  CHOOSE r \in near : \A q \in near : q = r \/ r % 2 = 0

\* a cell of the summary table is a number, Some(n), or the text "N/A"
NA == None

\* the row AddItemSummary makes of a count and the prices it reads
SummaryRow(count, prices) ==
    IF count > 0
    THEN [min |-> Some(MinOf(prices)), avg |-> Some(RoundedMean(Slice(prices, 5))),
          max |-> Some(MaxOf(prices)),
          stdev |-> IF count > 1 THEN Some(RoundedStdev(Slice(prices, 5))) ELSE NA,
          count |-> count]
    ELSE [min |-> NA, avg |-> NA, max |-> NA, stdev |-> NA, count |-> count]

AddItemSummaryTrimmed(list) ==
    SummaryRow(Len(list), NoMinMax([i \in 1..Len(list) |-> GetPrice(list[i])]))

\* AddItemSummary: lines 299-318
AddItemSummary(list) ==
    SummaryRow(Len(list), [i \in 1..Len(list) |-> GetPrice(list[i])])

\* reverse=args.buyers != args.reverse
SortsDescending == flags[1].buyers # flags[1].reverse

InitOrders ==
    /\ flags \in {Some(f) : f \in Flags}
    /\ orders \in OrderLists
    /\ shown = None
    /\ IdleMain /\ IdleResolve /\ IdlePaths

\* The loop body after GetItemOrders: lines 523-544.  shown.orders is the local
\* variable orders at the end, shown.row the summary row added to the table.
ShowOrders ==
    /\ shown = None
    /\ LET kept   == SelectSeq(orders, LAMBDA o : IF flags[1].buyers THEN FilterBuyers(o)
                                                                      ELSE FilterSellers(o))
           sorted == SortByPrice(kept, SortsDescending)
       IN  IF flags[1].summary
           THEN shown' = Some([orders |-> sorted, row |-> Some(AddItemSummary(sorted))])
           ELSE shown' = Some([orders |-> IF ~flags[1].all THEN Slice(sorted, 5) ELSE sorted,
                               row |-> None])
    /\ UNCHANGED <<flags, orders, mainVars, resolveVars, pathVars>>

SpecOrders == InitOrders /\ [][ShowOrders]_vars

\* the orders the options select
Wanted(o) ==
    /\ o.user.status # "offline"
    /\ o.platform = flags[1].platform
    /\ o.region = flags[1].language
    /\ o.order_type = (IF flags[1].buyers THEN "buy" ELSE "sell")

Occurrences(list, o) == Cardinality({i \in 1..Len(list) : list[i] = o})

Descending(list) == \A i \in 1..(Len(list) - 1) : list[i].platinum >= list[i + 1].platinum
Ascending(list) == \A i \in 1..(Len(list) - 1) : list[i].platinum <= list[i + 1].platinum

InOrder(list) ==
    IF flags[1].buyers # flags[1].reverse THEN Descending(list) ELSE Ascending(list)

\* every fetched order is on the list as often as it is wanted
ExactlyWanted(list) ==
    \A i \in 1..Len(orders) :
        Occurrences(list, orders[i]) = IF Wanted(orders[i]) THEN Occurrences(orders, orders[i]) ELSE 0

\* C9 as stated: the list shown or summarized holds exactly the wanted orders,
\* each once, by price: descending when buyers differs from reverse, else ascending.
C9_ShownIsAllWanted ==
    shown # None => ExactlyWanted(shown[1].orders) /\ InOrder(shown[1].orders)

\* C9 as amended: so it is for the list summarized and for the list shown under
\* --all; without --all the list shown is the first five of that list: at most
\* five wanted orders, in order, each once, as many as there are up to five, and
\* no wanted order left out would sort before the last one shown.
C9_ShownIsWantedUpToFive ==
    shown # None =>
        LET list == shown[1].orders
            n    == Cardinality({i \in 1..Len(orders) : Wanted(orders[i])})
        IN  /\ InOrder(list)
            /\ \A i \in 1..Len(list) : Wanted(list[i]) /\ Occurrences(list, list[i]) = 1
            /\ \A i \in 1..Len(list) : \E j \in 1..Len(orders) : orders[j] = list[i]
            /\ (flags[1].summary \/ flags[1].all) => ExactlyWanted(list)
            /\ ~(flags[1].summary \/ flags[1].all) =>
                 /\ Len(list) = (IF n < 5 THEN n ELSE 5)
                 /\ \A j \in 1..Len(orders) :
                      (Wanted(orders[j]) /\ Occurrences(list, orders[j]) = 0) =>
                          InOrder(<<list[Len(list)], orders[j]>>)

\* seven wanted sell orders were fetched among others and five are shown
C9_Witness ==
    /\ shown # None
    /\ ~flags[1].summary /\ ~flags[1].all /\ ~flags[1].buyers /\ flags[1].reverse
    /\ Len(orders) = 12
    /\ Len(shown[1].orders) = 5

\* C10: the summary row counts the orders; it is all N/A for no orders; min and
\* max are the least and greatest price of all the orders; avg is an integer
\* nearest to the mean of the first five prices at most; stdev is N/A exactly
\* for fewer than two orders.
C10_SummaryRow ==
    (shown # None /\ shown[1].row # None) =>
        LET list   == shown[1].orders
            row    == shown[1].row[1]
            prices == {list[i].platinum : i \in 1..Len(list)}
            k      == IF Len(list) < 5 THEN Len(list) ELSE 5
            total  == Sum([i \in 1..k |-> list[i].platinum])
        IN  /\ row.count = Len(list)
            /\ ExactlyWanted(list)
            /\ Len(list) = 0 => row.min = NA /\ row.avg = NA /\ row.max = NA /\ row.stdev = NA
            /\ Len(list) > 0 =>
                 /\ row.min # NA /\ row.avg # NA /\ row.max # NA
                 /\ row.min[1] \in prices /\ \A p \in prices : row.min[1] <= p
                 /\ row.max[1] \in prices /\ \A p \in prices : row.max[1] >= p
                 /\ row.avg[1] \in Int
                 /\ 2 * row.avg[1] * k - 2 * total <= k
                 /\ 2 * total - 2 * row.avg[1] * k <= k
            /\ (row.stdev = NA) = (Len(list) < 2)

\* seven orders are summarized, in descending order: the least price is not among
\* the first five
C10_Witness ==
    /\ shown # None /\ shown[1].row # None
    /\ Len(shown[1].orders) = 7
    /\ flags[1].reverse
    /\ shown[1].row[1].min = Some(10)
    /\ shown[1].row[1].max = Some(100)
    /\ shown[1].row[1].avg = Some(35)

====
